---- MODULE Spec2Model ----
(***************************************************************************)
(* Model of alloy-mev-blocker-client (src/src/lib.rs).                     *)
(*                                                                         *)
(* Two parts:                                                              *)
(*   - the decoder: impl Deserialize for MevBlockerTx (lib.rs 17-151),     *)
(*     a pure function from one wire record to Ok(MevBlockerTx) or Err;    *)
(*   - the subscription adapter:                                           *)
(*     subscribe_mev_blocker_pending_transactions (lib.rs 164-171).        *)
(*                                                                         *)
(* Spec    runs the decoder on every wire record of WireRecords.           *)
(* SubSpec runs concurrent subscribe calls against two providers.          *)
(***************************************************************************)
EXTENDS Integers, Sequences, FiniteSets, TLC

VARIABLES
    wire,       \* decoder: the JSON object handed to the deserializer
    result,     \* decoder: what deserialize returned, NoResult before it ran
    pc,         \* decoder: "start" | "done"
    subpc,      \* adapter: each call's position in subscribe_...
    provider,   \* adapter: the provider each call was made on
    call,       \* adapter: the RpcCall each call built
    nextId,     \* adapter: each client's request id counter
    sent,       \* adapter: the requests each client put on its transport
    resp,       \* adapter: the transport's answer to each call's request
    registered, \* adapter: the get_subscription calls made
    ret         \* adapter: what each call returned

decoderVars == <<wire, result, pc>>
adapterVars == <<subpc, provider, call, nextId, sent, resp, registered, ret>>
vars == <<wire, result, pc, subpc, provider, call, nextId, sent, resp, registered, ret>>

(***************************************************************************)
(* Bounds of the model.                                                    *)
(***************************************************************************)
\* a wire record differs from BaseRecord in at most MaxEdits keys
MaxEdits == 2
\* addresses are 0..MaxAddr; 0 is Address::ZERO
MaxAddr == 2
\* hashes are 1..MaxHash
MaxHash == 2
\* type tags on the wire are 0..MaxTag, U8Max and U8Max + 1
MaxTag == 6
\* concurrent subscribe calls
NumCalls == 2
\* subscription ids the server may answer with are 1..MaxSubId
MaxSubId == 2

\* tx_type: Option<u8>
U8Max == 255

(***************************************************************************)
(* Option<T>                                                               *)
(***************************************************************************)
None == [k |-> "none"]
Some(v) == [k |-> "some", v |-> v]
unwrap_or(o, d) == IF o.k = "some" THEN o.v ELSE d

(***************************************************************************)
(* JSON values of one key of the wire object: the key is absent, null, a   *)
(* string that does not parse under the field's encoding, or a value.      *)
(***************************************************************************)
Absent == [k |-> "absent"]
Null == [k |-> "null"]
Bad == [k |-> "bad"]
Val(v) == [k |-> "val", v |-> v]

\* Result<T, E>
Ok(v) == [ok |-> TRUE, v |-> v]
Err(e) == [ok |-> FALSE, err |-> e]

(***************************************************************************)
(* The keys RawMevBlockerTx reads, in declaration order.  The three keys   *)
(* of IgnoredKeys are not fields of the struct: serde skips unknown keys.  *)
(***************************************************************************)
Fields == <<"chainId", "to", "value", "data", "accessList", "nonce", "gasPrice",
            "maxPriorityFeePerGas", "maxFeePerGas", "gas", "type", "hash", "from">>
IgnoredKeys == {"blobVersionedHashes", "maxFeePerBlobGas", "authorizationList"}
WireKeys == {Fields[i] : i \in 1..Len(Fields)} \cup IgnoredKeys

AccessItem == [address |-> 1, storageKeys |-> <<1, 2>>]

\* values one key may carry on the wire
WireDomain(f) ==
    CASE f = "chainId" -> {Absent, Val(1), Val(5)}
      [] f = "to" -> {Absent} \cup {Val(a) : a \in 0..MaxAddr}
      [] f = "value" -> {Absent, Val(0), Val(9)}
      [] f = "data" -> {Absent, Null, Val(<<>>), Val(<<18, 52>>)}
      [] f = "accessList" -> {Absent, Val(<<>>), Val(<<AccessItem>>)}
      [] f = "nonce" -> {Absent, Bad, Val(1), Val(10)}
      [] f = "gasPrice" -> {Absent, Val(3)}
      [] f = "maxPriorityFeePerGas" -> {Absent, Val(2)}
      [] f = "maxFeePerGas" -> {Absent, Val(4)}
      [] f = "gas" -> {Absent, Val(6)}
      [] f = "type" -> {Absent} \cup {Val(t) : t \in (0..MaxTag) \cup {U8Max, U8Max + 1}}
      [] f = "hash" -> {Absent, Bad} \cup {Val(h) : h \in 1..MaxHash}
      [] f = "from" -> {Bad} \cup {Val(a) : a \in 0..MaxAddr}
      [] f = "blobVersionedHashes" -> {Absent, Val(<<1>>)}
      [] f = "maxFeePerBlobGas" -> {Absent, Val(7)}
      [] f = "authorizationList" -> {Absent, Val(<<1>>)}

\* the frame of tests::test_deserialize_type_2, every struct field present
BaseRecord ==
    [chainId |-> Val(1), to |-> Val(1), value |-> Val(9), data |-> Val(<<18, 52>>),
     accessList |-> Val(<<>>), nonce |-> Val(10), gasPrice |-> Val(3),
     maxPriorityFeePerGas |-> Val(2), maxFeePerGas |-> Val(4), gas |-> Val(6),
     type |-> Val(2), hash |-> Val(1), from |-> Val(2),
     blobVersionedHashes |-> Absent, maxFeePerBlobGas |-> Absent,
     authorizationList |-> Absent]

EditOnce(R) ==
    R \cup UNION {UNION {{[r EXCEPT ![f] = v] : v \in WireDomain(f)} : f \in WireKeys} : r \in R}

RECURSIVE Ball(_)
Ball(k) == IF k = 0 THEN {BaseRecord} ELSE EditOnce(Ball(k - 1))

WireRecords == Ball(MaxEdits)

(***************************************************************************)
(* RawMevBlockerTx::deserialize (derived), lib.rs 17-52.                   *)
(***************************************************************************)
\* Option<T> field: a missing key (serde default) and null are None
OptField(w) ==
    CASE w.k = "bad" -> Err("invalid")
      [] w.k = "val" -> Ok(Some(w.v))
      [] OTHER -> Ok(None)

\* field of a plain type with #[serde(default)]: null is not accepted
DefaultField(w, d) ==
    CASE w.k = "absent" -> Ok(d)
      [] w.k = "val" -> Ok(w.v)
      [] OTHER -> Err("invalid")

\* field without a default: a missing key is an error
RequiredField(w) ==
    CASE w.k = "absent" -> Err("missing")
      [] w.k = "val" -> Ok(w.v)
      [] OTHER -> Err("invalid")

\* Mutant: data read as plain Bytes, null rejected.
deserialize_data_strict(w) ==
    CASE w.k = "val" -> Ok(w.v)
      [] OTHER -> Err("invalid")

\* lib.rs 47-52; the key absent is serde's default, Bytes::default()
deserialize_data(w) ==
    CASE w.k = "bad" -> Err("invalid")
      [] w.k = "absent" -> Ok(<<>>)
      [] OTHER -> Ok(unwrap_or(IF w.k = "val" THEN Some(w.v) ELSE None, <<>>))

\* tx_type: Option<u8>: a quantity that does not fit u8 does not parse
TypeField(w) ==
    IF w.k = "val" /\ w.v > U8Max THEN Err("invalid") ELSE OptField(w)

ParseField(f, w) ==
    CASE f = "chainId" -> OptField(w)
      [] f = "to" -> OptField(w)
      [] f = "value" -> DefaultField(w, 0)
      [] f = "data" -> deserialize_data(w)
      [] f = "accessList" -> DefaultField(w, <<>>)
      [] f = "nonce" -> RequiredField(w)
      [] f = "gasPrice" -> OptField(w)
      [] f = "maxPriorityFeePerGas" -> OptField(w)
      [] f = "maxFeePerGas" -> OptField(w)
      [] f = "gas" -> RequiredField(w)
      [] f = "type" -> TypeField(w)
      [] f = "hash" -> RequiredField(w)
      [] f = "from" -> RequiredField(w)

FieldError(f, why) == [kind |-> "field", field |-> f, why |-> why]

\* Indices of the fields failing with `why`.
Failing(w, why) ==
    {i \in 1..Len(Fields) :
        LET p == ParseField(Fields[i], w[Fields[i]]) IN ~p.ok /\ p.err = why}

Min(S) == CHOOSE x \in S : \A y \in S : x <= y

(* The derived visitor reads the keys in the order of the object and fails *)
(* at the first value that does not parse; missing fields are reported     *)
(* after the last key, in declaration order.  The wire object lists its    *)
(* keys in the order of Fields.                                            *)
RawMevBlockerTx_deserialize(w) ==
    IF Failing(w, "invalid") # {}
    THEN Err(FieldError(Fields[Min(Failing(w, "invalid"))], "invalid"))
    ELSE IF Failing(w, "missing") # {}
    THEN Err(FieldError(Fields[Min(Failing(w, "missing"))], "missing"))
    ELSE Ok([chain_id |-> ParseField("chainId", w.chainId).v,
             to |-> ParseField("to", w.to).v,
             value |-> ParseField("value", w.value).v,
             data |-> ParseField("data", w.data).v,
             access_list |-> ParseField("accessList", w.accessList).v,
             nonce |-> ParseField("nonce", w.nonce).v,
             gas_price |-> ParseField("gasPrice", w.gasPrice).v,
             max_priority_fee_per_gas |-> ParseField("maxPriorityFeePerGas", w.maxPriorityFeePerGas).v,
             max_fee_per_gas |-> ParseField("maxFeePerGas", w.maxFeePerGas).v,
             gas |-> ParseField("gas", w.gas).v,
             tx_type |-> ParseField("type", w.type).v,
             hash |-> ParseField("hash", w.hash).v,
             from |-> ParseField("from", w.from).v])

(***************************************************************************)
(* impl Deserialize for MevBlockerTx, lib.rs 54-151.                       *)
(***************************************************************************)
\* Signature::new(U256::ZERO, U256::ZERO, false), lib.rs 61
sig == [r |-> 0, s |-> 0, y_parity |-> FALSE]

\* Mutant: a missing type read as a dynamic-fee transaction.
TxTypeOf_eip1559(rawtx) == unwrap_or(rawtx.tx_type, 2)

\* lib.rs 62
TxTypeOf(rawtx) == unwrap_or(rawtx.tx_type, 0)

Create == [k |-> "Create"]
Call(a) == [k |-> "Call", a |-> a]

\* Mutant: the recipient defaulted as the blob and set-code arms do.
TxKindOf_default(to) == Call(unwrap_or(to, 0))

\* raw.to.map_or(TxKind::Create, TxKind::Call), lib.rs 71, 84, 99
TxKindOf(to) == IF to.k = "some" THEN Call(to.v) ELSE Create

\* raw.to.unwrap_or_default(), lib.rs 114, 131: an Address, not a TxKind;
\* Address::default() is Address::ZERO
AddressOf(to) == [k |-> "Address", a |-> unwrap_or(to, 0)]

\* lib.rs 66-74
TxLegacyOf(rawtx) ==
    [chain_id |-> rawtx.chain_id,
     nonce |-> rawtx.nonce,
     gas_price |-> unwrap_or(rawtx.gas_price, 0),
     gas_limit |-> rawtx.gas,
     to |-> TxKindOf(rawtx.to),
     value |-> rawtx.value,
     input |-> rawtx.data]

\* lib.rs 79-88
TxEip2930Of(rawtx) ==
    [chain_id |-> unwrap_or(rawtx.chain_id, 1),
     nonce |-> rawtx.nonce,
     gas_price |-> unwrap_or(rawtx.gas_price, 0),
     gas_limit |-> rawtx.gas,
     to |-> TxKindOf(rawtx.to),
     value |-> rawtx.value,
     access_list |-> rawtx.access_list,
     input |-> rawtx.data]

\* lib.rs 93-103
TxEip1559Of(rawtx) ==
    [chain_id |-> unwrap_or(rawtx.chain_id, 1),
     nonce |-> rawtx.nonce,
     gas_limit |-> rawtx.gas,
     max_fee_per_gas |-> unwrap_or(rawtx.max_fee_per_gas, 0),
     max_priority_fee_per_gas |-> unwrap_or(rawtx.max_priority_fee_per_gas, 0),
     to |-> TxKindOf(rawtx.to),
     value |-> rawtx.value,
     access_list |-> rawtx.access_list,
     input |-> rawtx.data]

\* Mutant: the blob fee taken from the fee cap.
TxEip4844Of_feecap(rawtx) ==
    [chain_id |-> unwrap_or(rawtx.chain_id, 1),
     nonce |-> rawtx.nonce,
     gas_limit |-> rawtx.gas,
     max_fee_per_gas |-> unwrap_or(rawtx.max_fee_per_gas, 0),
     max_priority_fee_per_gas |-> unwrap_or(rawtx.max_priority_fee_per_gas, 0),
     to |-> AddressOf(rawtx.to),
     value |-> rawtx.value,
     access_list |-> rawtx.access_list,
     blob_versioned_hashes |-> <<>>,
     max_fee_per_blob_gas |-> unwrap_or(rawtx.max_fee_per_gas, 0),
     input |-> rawtx.data]

\* lib.rs 108-120
TxEip4844Of(rawtx) ==
    [chain_id |-> unwrap_or(rawtx.chain_id, 1),
     nonce |-> rawtx.nonce,
     gas_limit |-> rawtx.gas,
     max_fee_per_gas |-> unwrap_or(rawtx.max_fee_per_gas, 0),
     max_priority_fee_per_gas |-> unwrap_or(rawtx.max_priority_fee_per_gas, 0),
     to |-> AddressOf(rawtx.to),
     value |-> rawtx.value,
     access_list |-> rawtx.access_list,
     blob_versioned_hashes |-> <<>>,
     max_fee_per_blob_gas |-> 0,
     input |-> rawtx.data]

\* lib.rs 125-136
TxEip7702Of(rawtx) ==
    [chain_id |-> unwrap_or(rawtx.chain_id, 1),
     nonce |-> rawtx.nonce,
     gas_limit |-> rawtx.gas,
     max_fee_per_gas |-> unwrap_or(rawtx.max_fee_per_gas, 0),
     max_priority_fee_per_gas |-> unwrap_or(rawtx.max_priority_fee_per_gas, 0),
     to |-> AddressOf(rawtx.to),
     value |-> rawtx.value,
     access_list |-> rawtx.access_list,
     authorization_list |-> <<>>,
     input |-> rawtx.data]

\* Signed::new_unchecked(tx, signature, hash): the hash is stored, not computed
Signed_new_unchecked(variant, tx, signature, hash) ==
    [variant |-> variant, tx |-> tx, signature |-> signature, hash |-> hash]

\* serde::de::Error::custom(format!("unknown tx type: 0x{other:x}")), lib.rs 140
UnknownTxType(other) == [kind |-> "unknown tx type", tag |-> other]

\* Mutant: an unknown tag decoded as a legacy transaction.
EnvelopeOf_lenient(rawtx, tx_type) ==
    CASE tx_type = 1 -> Ok(Signed_new_unchecked("Eip2930", TxEip2930Of(rawtx), sig, rawtx.hash))
      [] tx_type = 2 -> Ok(Signed_new_unchecked("Eip1559", TxEip1559Of(rawtx), sig, rawtx.hash))
      [] tx_type = 3 -> Ok(Signed_new_unchecked("Eip4844", TxEip4844Of(rawtx), sig, rawtx.hash))
      [] tx_type = 4 -> Ok(Signed_new_unchecked("Eip7702", TxEip7702Of(rawtx), sig, rawtx.hash))
      [] OTHER -> Ok(Signed_new_unchecked("Legacy", TxLegacyOf(rawtx), sig, rawtx.hash))

\* the match of lib.rs 64-141
EnvelopeOf(rawtx, tx_type) ==
    CASE tx_type = 0 -> Ok(Signed_new_unchecked("Legacy", TxLegacyOf(rawtx), sig, rawtx.hash))
      [] tx_type = 1 -> Ok(Signed_new_unchecked("Eip2930", TxEip2930Of(rawtx), sig, rawtx.hash))
      [] tx_type = 2 -> Ok(Signed_new_unchecked("Eip1559", TxEip1559Of(rawtx), sig, rawtx.hash))
      [] tx_type = 3 -> Ok(Signed_new_unchecked("Eip4844", TxEip4844Of(rawtx), sig, rawtx.hash))
      [] tx_type = 4 -> Ok(Signed_new_unchecked("Eip7702", TxEip7702Of(rawtx), sig, rawtx.hash))
      [] OTHER -> Err(UnknownTxType(tx_type))

\* Mutant: the signer recovered from the signature; the zero signature
\* recovers no key, and the zero address stands for it.
Recovered_from_signature(envelope, signer) == [inner |-> envelope, signer |-> 0]

\* Recovered::new_unchecked(envelope, raw.from), lib.rs 144
Recovered_new_unchecked(envelope, signer) == [inner |-> envelope, signer |-> signer]

\* lib.rs 143-149
TransactionOf(envelope, from) ==
    [inner |-> Recovered_new_unchecked(envelope, from),
     block_hash |-> None,
     block_number |-> None,
     transaction_index |-> None,
     effective_gas_price |-> None]

\* lib.rs 61-149: the part of deserialize after the raw record is read
Build(rawtx) ==
    LET e == EnvelopeOf(rawtx, TxTypeOf(rawtx))
    IN IF e.ok THEN Ok(TransactionOf(e.v, rawtx.from)) ELSE e

\* Mutant: the tag looked at before the other fields are read.
MevBlockerTx_deserialize_tagfirst(w) ==
    LET t == TypeField(w.type)
        r == RawMevBlockerTx_deserialize(w)
    IN IF t.ok /\ unwrap_or(t.v, 0) \notin 0..4
       THEN Err(UnknownTxType(unwrap_or(t.v, 0)))
       ELSE IF r.ok THEN Build(r.v) ELSE r

\* Mutant: the failure carries the payload it was decoding.
MevBlockerTx_deserialize_keep(w) ==
    LET r == RawMevBlockerTx_deserialize(w)
        d == IF r.ok THEN Build(r.v) ELSE r
    IN IF d.ok THEN d ELSE [ok |-> FALSE, err |-> d.err, payload |-> w]

\* <MevBlockerTx as Deserialize>::deserialize, lib.rs 55-150
MevBlockerTx_deserialize(w) ==
    LET r == RawMevBlockerTx_deserialize(w)
    IN IF r.ok THEN Build(r.v) ELSE r

\* accessors of the decoded transaction used by the tests (lib.rs 195-196)
from(tx) == tx.inner.signer
tx_hash(tx) == tx.inner.inner.hash
envelope(tx) == tx.inner.inner

(***************************************************************************)
(* The subscription adapter, lib.rs 158-172.                               *)
(***************************************************************************)
Calls == 1..NumCalls
\* "ws" is the provider of the example (connect_ws); "http" has no pubsub
Providers == {"ws", "http"}
NoProvider == "none"

\* self.root().client().pubsub_frontend(), lib.rs 165
pubsub_frontend(p) == IF p = "ws" THEN Some("frontend") ELSE None

PubsubUnavailable == [kind |-> "PubsubUnavailable"]
TransportError == [kind |-> "transport"]
BackendGone == [kind |-> "backend gone"]

\* self.client().request("eth_subscribe", ("mevblocker_partialPendingTransactions",))
Request(id) ==
    [id |-> id, method |-> "eth_subscribe",
     params |-> <<"mevblocker_partialPendingTransactions">>,
     is_subscription |-> FALSE]

\* provider.subscribe_mev_blocker_pending_transactions() is called
Invoke(c) ==
    /\ subpc[c] = "idle"
    /\ \E p \in Providers : provider' = [provider EXCEPT ![c] = p]
    /\ subpc' = [subpc EXCEPT ![c] = "check"]
    /\ UNCHANGED <<call, nextId, sent, resp, registered, ret, decoderVars>>

\* Mutant: the request is built before the frontend is looked for.
CheckPubsub_late(c) ==
    /\ subpc[c] = "check"
    /\ IF pubsub_frontend(provider[c]) = None
       THEN /\ call' = [call EXCEPT ![c] = Some(Request(nextId[provider[c]]))]
            /\ nextId' = [nextId EXCEPT ![provider[c]] = @ + 1]
            /\ ret' = [ret EXCEPT ![c] = Some(Err(PubsubUnavailable))]
            /\ subpc' = [subpc EXCEPT ![c] = "done"]
       ELSE /\ subpc' = [subpc EXCEPT ![c] = "request"]
            /\ UNCHANGED <<call, nextId, ret>>
    /\ UNCHANGED <<provider, sent, resp, registered, decoderVars>>

\* lib.rs 165: pubsub_frontend().ok_or_else(pubsub_unavailable)?
CheckPubsub(c) ==
    /\ subpc[c] = "check"
    /\ IF pubsub_frontend(provider[c]) = None
       THEN /\ ret' = [ret EXCEPT ![c] = Some(Err(PubsubUnavailable))]
            /\ subpc' = [subpc EXCEPT ![c] = "done"]
       ELSE /\ subpc' = [subpc EXCEPT ![c] = "request"]
            /\ ret' = ret
    /\ UNCHANGED <<provider, call, nextId, sent, resp, registered, decoderVars>>

\* lib.rs 167: client().request(..) takes the client's next request id
MakeRequest(c) ==
    /\ subpc[c] = "request"
    /\ call' = [call EXCEPT ![c] = Some(Request(nextId[provider[c]]))]
    /\ nextId' = [nextId EXCEPT ![provider[c]] = @ + 1]
    /\ subpc' = [subpc EXCEPT ![c] = "mark"]
    /\ UNCHANGED <<provider, sent, resp, registered, ret, decoderVars>>

\* Mutant: the call is left a one-shot call.
SetIsSubscription_skip(c) ==
    /\ subpc[c] = "mark"
    /\ subpc' = [subpc EXCEPT ![c] = "await"]
    /\ UNCHANGED <<call, provider, nextId, sent, resp, registered, ret, decoderVars>>

\* lib.rs 168: call.set_is_subscription()
SetIsSubscription(c) ==
    /\ subpc[c] = "mark"
    /\ call' = [call EXCEPT ![c] = Some([@.v EXCEPT !.is_subscription = TRUE])]
    /\ subpc' = [subpc EXCEPT ![c] = "await"]
    /\ UNCHANGED <<provider, nextId, sent, resp, registered, ret, decoderVars>>

\* lib.rs 169: the first poll of call.await puts the request on the transport
Send(c) ==
    /\ subpc[c] = "await"
    /\ sent' = [sent EXCEPT ![provider[c]] = Append(@, call[c].v)]
    /\ subpc' = [subpc EXCEPT ![c] = "waiting"]
    /\ UNCHANGED <<provider, call, nextId, resp, registered, ret, decoderVars>>

\* the transport answers the request: a subscription id, or an error
Respond(c) ==
    /\ subpc[c] = "waiting"
    /\ resp[c] = None
    /\ \E r \in {Ok(i) : i \in 1..MaxSubId} \cup {Err(TransportError)} :
          resp' = [resp EXCEPT ![c] = Some(r)]
    /\ UNCHANGED <<subpc, provider, call, nextId, sent, registered, ret, decoderVars>>

\* lib.rs 169: let id = call.await?
AwaitId(c) ==
    /\ subpc[c] = "waiting"
    /\ resp[c] # None
    /\ IF resp[c].v.ok
       THEN /\ subpc' = [subpc EXCEPT ![c] = "register"]
            /\ ret' = ret
       ELSE /\ ret' = [ret EXCEPT ![c] = Some(resp[c].v)]
            /\ subpc' = [subpc EXCEPT ![c] = "done"]
    /\ UNCHANGED <<provider, call, nextId, sent, resp, registered, decoderVars>>

\* lib.rs 170: self.root().get_subscription(id).await
GetSubscription(c) ==
    /\ subpc[c] = "register"
    /\ registered' = registered \cup {[call |-> c, id |-> resp[c].v.v]}
    /\ \E r \in {Ok([subscription |-> resp[c].v.v]), Err(BackendGone)} :
          ret' = [ret EXCEPT ![c] = Some(r)]
    /\ subpc' = [subpc EXCEPT ![c] = "done"]
    /\ UNCHANGED <<provider, call, nextId, sent, resp, decoderVars>>

(***************************************************************************)
(* The decoder run on one frame.                                           *)
(***************************************************************************)
NoResult == [k |-> "none"]

\* serde_json::from_str::<MevBlockerTx>(frame), as in the tests
Deserialize ==
    /\ pc = "start"
    /\ result' = MevBlockerTx_deserialize(wire)
    /\ pc' = "done"
    /\ UNCHANGED <<wire, adapterVars>>

InitAdapter ==
    /\ subpc = [c \in Calls |-> "idle"]
    /\ provider = [c \in Calls |-> NoProvider]
    /\ call = [c \in Calls |-> None]
    /\ nextId = [p \in Providers |-> 0]
    /\ sent = [p \in Providers |-> <<>>]
    /\ resp = [c \in Calls |-> None]
    /\ registered = {}
    /\ ret = [c \in Calls |-> None]

Init ==
    /\ wire \in WireRecords
    /\ result = NoResult
    /\ pc = "start"
    /\ InitAdapter

Next == Deserialize

Spec == Init /\ [][Next]_vars

SubInit ==
    /\ wire = BaseRecord
    /\ result = NoResult
    /\ pc = "start"
    /\ InitAdapter

SubNext ==
    \E c \in Calls :
        \/ Invoke(c)
        \/ CheckPubsub(c)
        \/ MakeRequest(c)
        \/ SetIsSubscription(c)
        \/ Send(c)
        \/ Respond(c)
        \/ AwaitId(c)
        \/ GetSubscription(c)

SubSpec == SubInit /\ [][SubNext]_vars

(***************************************************************************)
(* Vocabulary of the properties, stated on the wire record alone.          *)
(***************************************************************************)
FieldSet == {Fields[i] : i \in 1..Len(Fields)}
RequiredKeys == {"nonce", "gas", "hash", "from"}
NullableKeys == {"chainId", "to", "data", "gasPrice", "maxPriorityFeePerGas",
                 "maxFeePerGas", "type"}

\* key f of w is well-formed: it parses, and it is there if it has to be
KeyWellFormed(w, f) ==
    /\ w[f].k # "bad"
    /\ w[f].k = "null" => f \in NullableKeys
    /\ f \in RequiredKeys => w[f].k = "val"

OthersWellFormed(w) == \A f \in FieldSet \ {"type"} : KeyWellFormed(w, f)
BrokenKeys(w) == {f \in FieldSet \ {"type"} : ~KeyWellFormed(w, f)}

HasTag(w, T) == w.type.k = "val" /\ w.type.v \in T
KnownTags == 0..4
Variant(t) ==
    CASE t = 0 -> "Legacy" [] t = 1 -> "Eip2930" [] t = 2 -> "Eip1559"
      [] t = 3 -> "Eip4844" [] t = 4 -> "Eip7702"

Done == pc = "done"
Failed == Done /\ ~result.ok
Decoded == Done /\ result.ok

(***************************************************************************)
(* C1: a well-formed record tagged 0..4 decodes, to the variant of its     *)
(* tag, with the sender and the hash of the record, neither recomputed.    *)
(***************************************************************************)
C1_VariantSenderHash ==
    (Done /\ OthersWellFormed(wire) /\ HasTag(wire, KnownTags)) =>
        /\ result.ok
        /\ envelope(result.v).variant = Variant(wire.type.v)
        /\ from(result.v) = wire.from.v
        /\ tx_hash(result.v) = wire.hash.v

C1_Witness ==
    /\ Decoded
    /\ wire.type = Val(4)
    /\ wire.from = Val(1)
    /\ envelope(result.v).variant = "Eip7702"
    /\ from(result.v) = 1

(***************************************************************************)
(* C2, as claimed: a record tagged outside 0..4, its other fields          *)
(* well-formed, fails with the unknown-type error naming the tag.          *)
(***************************************************************************)
C2_Original ==
    (Done /\ OthersWellFormed(wire) /\ wire.type.k = "val" /\ wire.type.v \notin KnownTags) =>
        /\ ~result.ok
        /\ result.err = UnknownTxType(wire.type.v)

(***************************************************************************)
(* C2, amended: such a record never decodes; the error is the unknown-type *)
(* error naming the tag when the tag fits u8 (5..255), and the error of    *)
(* the `type` field when it does not.                                      *)
(***************************************************************************)
C2_UnknownTagFails ==
    (Done /\ OthersWellFormed(wire) /\ wire.type.k = "val" /\ wire.type.v \notin KnownTags) =>
        /\ ~result.ok
        /\ DOMAIN result = {"ok", "err"}
        /\ wire.type.v <= U8Max => result.err = UnknownTxType(wire.type.v)
        /\ wire.type.v > U8Max => result.err = FieldError("type", "invalid")

C2_Witness ==
    /\ Failed
    /\ OthersWellFormed(wire)
    /\ wire.type = Val(5)
    /\ result.err = UnknownTxType(5)

(***************************************************************************)
(* C3, as claimed: a failed decode hands back the raw payload it was given.*)
(***************************************************************************)
C3_Original ==
    Failed => ("payload" \in DOMAIN result /\ result.payload = wire)

(***************************************************************************)
(* C3, amended: a failed decode hands back an error only, the unknown tag  *)
(* or the offending field; the raw payload is not part of it.              *)
(***************************************************************************)
C3_ErrorOnly ==
    Failed =>
        /\ DOMAIN result = {"ok", "err"}
        /\ \/ /\ DOMAIN result.err = {"kind", "tag"}
              /\ result.err.kind = "unknown tx type"
              /\ result.err.tag \in 5..U8Max
           \/ /\ DOMAIN result.err = {"kind", "field", "why"}
              /\ result.err.kind = "field"
              /\ result.err.field \in FieldSet
              /\ result.err.why \in {"missing", "invalid"}

C3_Witness ==
    /\ Failed
    /\ wire.type = Val(U8Max)
    /\ wire.data = Val(<<>>)
    /\ result.err.kind = "unknown tx type"

(***************************************************************************)
(* C4: `data` absent, null and "0x" decode to the same result, and an      *)
(* envelope so decoded has the empty input.                                *)
(***************************************************************************)
C4_DataForms ==
    (Done /\ wire.data \in {Absent, Null, Val(<<>>)}) =>
        /\ result = MevBlockerTx_deserialize([wire EXCEPT !.data = Absent])
        /\ result = MevBlockerTx_deserialize([wire EXCEPT !.data = Null])
        /\ result = MevBlockerTx_deserialize([wire EXCEPT !.data = Val(<<>>)])
        /\ result.ok => envelope(result.v).tx.input = <<>>

C4_Witness ==
    /\ Decoded
    /\ wire.data = Null
    /\ wire.type = Val(3)
    /\ envelope(result.v).tx.input = <<>>

(***************************************************************************)
(* C5: a record without `type` decodes as the same record with type 0x0:   *)
(* the same Legacy transaction, or the same failure.                       *)
(***************************************************************************)
C5_MissingTypeIsLegacy ==
    (Done /\ wire.type = Absent) =>
        /\ result = MevBlockerTx_deserialize([wire EXCEPT !.type = Val(0)])
        /\ result.ok => envelope(result.v).variant = "Legacy"
        /\ OthersWellFormed(wire) => result.ok

C5_Witness ==
    /\ Decoded
    /\ wire.type = Absent
    /\ envelope(result.v).variant = "Legacy"

(***************************************************************************)
(* C6: a type-3 record without blobVersionedHashes and maxFeePerBlobGas    *)
(* decodes to a blob envelope with no versioned hash and blob fee 0; a     *)
(* type-4 record without authorizationList decodes to a set-code envelope  *)
(* with no authorization.                                                  *)
(***************************************************************************)
C6_BlobAndAuthDefaults ==
    /\ (Done /\ OthersWellFormed(wire) /\ HasTag(wire, {3})
          /\ wire.blobVersionedHashes = Absent /\ wire.maxFeePerBlobGas = Absent) =>
           /\ result.ok
           /\ envelope(result.v).variant = "Eip4844"
           /\ envelope(result.v).tx.blob_versioned_hashes = <<>>
           /\ envelope(result.v).tx.max_fee_per_blob_gas = 0
    /\ (Done /\ OthersWellFormed(wire) /\ HasTag(wire, {4})
          /\ wire.authorizationList = Absent) =>
           /\ result.ok
           /\ envelope(result.v).variant = "Eip7702"
           /\ envelope(result.v).tx.authorization_list = <<>>

C6_Witness ==
    /\ Decoded
    /\ wire.type = Val(3)
    /\ wire.blobVersionedHashes = Absent
    /\ wire.maxFeePerBlobGas = Absent
    /\ wire.maxFeePerGas = Val(4)
    /\ envelope(result.v).tx.max_fee_per_blob_gas = 0

C10_Original ==
    (Done /\ OthersWellFormed(wire) /\ HasTag(wire, KnownTags) /\ wire.to = Absent) =>
        /\ result.ok
        /\ envelope(result.v).tx.to = Create
        /\ result # MevBlockerTx_deserialize([wire EXCEPT !.to = Val(0)])

(***************************************************************************)
(* C10, amended: for the tags 0, 1, 2 a record without `to` decodes to a   *)
(* contract creation and differs from the decode with `to` the zero        *)
(* address; for the tags 3, 4 it decodes with the zero address as          *)
(* recipient, the same as the decode with `to` the zero address.           *)
(***************************************************************************)
C10_RecipientAbsent ==
    (Done /\ OthersWellFormed(wire) /\ HasTag(wire, KnownTags) /\ wire.to = Absent) =>
        /\ result.ok
        /\ wire.type.v \in 0..2 =>
              /\ envelope(result.v).tx.to = Create
              /\ result # MevBlockerTx_deserialize([wire EXCEPT !.to = Val(0)])
        /\ wire.type.v \in 3..4 =>
              /\ envelope(result.v).tx.to = AddressOf(Some(0))
              /\ result = MevBlockerTx_deserialize([wire EXCEPT !.to = Val(0)])

C10_Witness ==
    /\ Decoded
    /\ wire.type = Val(3)
    /\ wire.to = Absent
    /\ envelope(result.v).tx.to.a = 0

(***************************************************************************)
(* Vocabulary of the adapter's properties.                                 *)
(***************************************************************************)
Returned(c) == subpc[c] = "done"
\* the requests on p's transport carrying request id i
SentWithId(p, i) == {n \in 1..Len(sent[p]) : sent[p][n].id = i}
RegisteredFor(c) == {r \in registered : r.call = c}

(***************************************************************************)
(* C7: on a provider without a pubsub frontend the call returns            *)
(* PubsubUnavailable, and builds and sends no request: the client's        *)
(* request id counter is where it started and its transport saw nothing.   *)
(***************************************************************************)
C7_NoRequestWithoutPubsub ==
    /\ \A c \in Calls :
          /\ (Returned(c) /\ pubsub_frontend(provider[c]) = None) =>
                ret[c] = Some(Err(PubsubUnavailable))
          /\ ret[c] = Some(Err(PubsubUnavailable)) =>
                /\ pubsub_frontend(provider[c]) = None
                /\ call[c] = None
                /\ resp[c] = None
                /\ RegisteredFor(c) = {}
    /\ \A p \in Providers :
          pubsub_frontend(p) = None => (nextId[p] = 0 /\ sent[p] = <<>>)

C7_Witness ==
    \E c, d \in Calls :
        /\ Returned(c)
        /\ provider[c] = "http"
        /\ ret[c] = Some(Err(PubsubUnavailable))
        /\ provider[d] = "ws"
        /\ Len(sent["ws"]) = 1
        /\ nextId["ws"] = 1

(***************************************************************************)
(* C8: on a pubsub provider one call puts exactly one request on the       *)
(* transport, flagged as a subscription when it is sent; get_subscription  *)
(* is called only once the answer carried a subscription id, and with that *)
(* id; when the request fails nothing is registered and the call returns   *)
(* that one error, with no handle.                                         *)
(***************************************************************************)
C8_OneFlaggedRequest ==
    /\ \A p \in Providers : \A n \in 1..Len(sent[p]) :
          /\ sent[p][n].is_subscription
          /\ sent[p][n].method = "eth_subscribe"
    /\ \A c \in Calls :
          /\ call[c] # None =>
                Cardinality(SentWithId(provider[c], call[c].v.id))
                    = IF subpc[c] \in {"waiting", "register", "done"} THEN 1 ELSE 0
          /\ (Returned(c) /\ provider[c] = "ws") => call[c] # None
          /\ \A r \in RegisteredFor(c) :
                resp[c] # None /\ resp[c].v.ok /\ r.id = resp[c].v.v
          /\ Cardinality(RegisteredFor(c)) <= 1
          /\ (resp[c] # None /\ ~resp[c].v.ok) =>
                /\ RegisteredFor(c) = {}
                /\ Returned(c) => ret[c] = Some(Err(TransportError))
                /\ ~Returned(c) => ret[c] = None
          /\ (ret[c] # None /\ ret[c].v.ok) =>
                /\ resp[c] # None /\ resp[c].v.ok
                /\ ret[c].v.v.subscription = resp[c].v.v
                /\ RegisteredFor(c) = {[call |-> c, id |-> resp[c].v.v]}
    /\ \A c, d \in Calls :
          (c # d /\ call[c] # None /\ call[d] # None /\ provider[c] = provider[d]) =>
              call[c].v.id # call[d].v.id

C8_Witness ==
    \E c, d \in Calls :
        /\ Returned(c)
        /\ ret[c] = Some(Ok([subscription |-> 2]))
        /\ registered = {[call |-> c, id |-> 2]}
        /\ Returned(d)
        /\ ret[d] = Some(Err(TransportError))
        /\ Len(sent["ws"]) = 2

====
